---- MODULE Spec2Model ----
(***************************************************************************)
(* Agilent 4155/4156 semiconductor parameter analyzer driver               *)
(* (pymeasure/instruments/agilent/agilent4156.py).                         *)
(*                                                                         *)
(* The driver is a synchronous mapping from attribute accesses to SCPI     *)
(* commands.  The state is the instrument's channel-definition registers   *)
(* (function and mode of the eight units, analyzer mode, constant-source   *)
(* registers, signal names, display lists, measured points) together with  *)
(* the outcome of the driver call in progress: the commands it put on the  *)
(* transport, the exception it raised, the value it returned.              *)
(*                                                                         *)
(* Numbers are fixed-point in tenths: U(200) is 200, the integer 1 is 0.1. *)
(***************************************************************************)
EXTENDS Integers, Sequences, FiniteSets, TLC

VARIABLES
    func,     \* instrument: FCTN register of every unit ("DIS" when disabled)
    mode,     \* instrument: MODE register of every unit ("DIS" when disabled)
    amode,    \* instrument: analyzer mode, "SWE" or "SAMP"
    cons,     \* instrument: constant-source value of every SMU and VSU
    compl,    \* instrument: constant compliance of every SMU
    pc,       \* caller: "idle" (between calls) or "done" (a call has returned)
    call,     \* the driver call that returned last
    result,   \* "ok" or the name of the exception the call raised
    sent,     \* the transport commands the call issued, in order
    ret,      \* the value the call returned ("" when none)
    errlog,   \* the instrument errors the call drained with check_errors
    names,    \* instrument: VNAME / INAME register of every unit
    dlist,    \* instrument: the display list (:PAGE:DISP:LIST)
    dvar,     \* instrument: the extra-variable list (:PAGE:DISP:DVAR)
    npts,     \* instrument: number of points of the last measurement
    unread,   \* transport: the replies the driver has not read
    info,     \* the log.info entries the call made
    out       \* the structured value the call returned (<<>> when none)

vars == <<func, mode, amode, cons, compl, pc, call, result, sent, ret, errlog,
          names, dlist, dvar, npts, unread, info, out>>

U(x) == 10 * x

SMUs == {"SMU1", "SMU2", "SMU3", "SMU4"}
VMUs == {"VMU1", "VMU2"}
VSUs == {"VSU1", "VSU2"}
Units == SMUs \cup VMUs \cup VSUs
SweepVars == {"VAR1", "VAR2", "VARD"}

\* the name registers: voltage_name of every unit, current_name of the SMUs
NameRegisters == ({"VNAME"} \X Units) \cup ({"INAME"} \X SMUs)

\* the channels VARX.channel_mode and VARD.channel_mode scan, in order
ScanOrder == <<"SMU1", "SMU2", "SMU3", "SMU4", "VSU1", "VSU2">>

\* the channels disable_all resets, in order
ResetOrder == <<"SMU1", "SMU2", "SMU3", "SMU4", "VMU1", "VMU2">>

\* values= of channel_function
FunctionValues == {"VAR1", "VAR2", "VARD", "CONS"}

\* variant: the voltage-source units accept their one output mode
ModeValues_vsu(ch) ==
    IF ch \in SMUs THEN {"V", "I", "COMM"}
    ELSE IF ch \in VMUs THEN {"V", "DVOL"}
    ELSE {"V"}

\* channel_mode_values of each channel class; the class default is values=[]
ModeValues(ch) ==
    IF ch \in SMUs THEN {"V", "I", "COMM"}
    ELSE IF ch \in VMUs THEN {"V", "DVOL"}
    ELSE {}

\* values= of analyzer_mode, a name -> instrument code map
AnalyzerModeMap == [SWEEP |-> "SWE", SAMPLING |-> "SAMP"]

AnalyzerModeName(code) ==
    CHOOSE k \in DOMAIN AnalyzerModeMap : AnalyzerModeMap[k] = code

(***************************************************************************)
(* Transport commands.  k is "w" for a write and "q" for a query, cmd the  *)
(* SCPI pattern, ch the channel it is formatted with, s / n its string or  *)
(* numeric argument, t a text argument given as a sequence of characters.  *)
(***************************************************************************)
Cmd(k, c, ch, s, n) ==
    [k |-> k, cmd |-> c, ch |-> ch, s |-> s, n |-> n, t |-> <<>>]
Query(c, ch) == Cmd("q", c, ch, "", 0)
WriteS(c, ch, s) == Cmd("w", c, ch, s, 0)
WriteN(c, ch, n) == Cmd("w", c, ch, "", n)
WriteT(c, ch, t) == [Cmd("w", c, ch, "", 0) EXCEPT !.t = t]

RECURSIVE SelectWrites(_)
SelectWrites(s) ==
    IF s = <<>> THEN <<>>
    ELSE IF Head(s).k = "w" THEN <<Head(s)>> \o SelectWrites(Tail(s))
    ELSE SelectWrites(Tail(s))

SeqRange(s) == {s[i] : i \in DOMAIN s}
SeqMin(s) == CHOOSE x \in SeqRange(s) : \A y \in SeqRange(s) : x <= y
SeqMax(s) == CHOOSE x \in SeqRange(s) : \A y \in SeqRange(s) : y <= x

(***************************************************************************)
(* A call runs on a machine record m: the instrument registers, the        *)
(* commands sent so far, the exception raised (res), the errors queued in  *)
(* the instrument (errq) and drained by the driver (log), and the units    *)
(* whose disable command the instrument answers with an error (fault).     *)
(* acq is the number of points the next measurement acquires and opc the   *)
(* instrument's reply to *OPC?.                                            *)
(***************************************************************************)
Machine(fault) ==
    [func |-> func, mode |-> mode, amode |-> amode, cons |-> cons,
     compl |-> compl, sent |-> <<>>, res |-> "ok", ret |-> "",
     errq |-> <<>>, log |-> <<>>, fault |-> fault,
     names |-> names, dlist |-> dlist, dvar |-> dvar, npts |-> npts,
     unread |-> unread, info |-> <<>>, out |-> <<>>,
     acq |-> 0, opc |-> "1"]

Raise(m, e) == [m EXCEPT !.res = e]
\* a command that reaches the instrument while a reply is unread discards
\* that reply (IEEE 488.2)
Send(m, c) == [m EXCEPT !.sent = Append(@, c), !.unread = <<>>]

\* the capacity of the display list and of the extra-variable list
DisplayLimit == 8
VariableLimit == 2

\* the instrument executes a write command
Instr(m, c) ==
    CASE c.cmd = ":PAGE:CHAN:{ch}:DIS" ->
            IF c.ch \in m.fault
            THEN [m EXCEPT !.errq = Append(@, c.ch)]
            ELSE [m EXCEPT !.func[c.ch] = "DIS", !.mode[c.ch] = "DIS"]
      [] c.cmd = ":PAGE:CHAN:{ch}:FUNC" ->
            [m EXCEPT !.func[c.ch] = c.s,
                      !.mode[c.ch] = IF c.ch \in VSUs THEN "V" ELSE @]
      [] c.cmd = ":PAGE:CHAN:{ch}:MODE" -> [m EXCEPT !.mode[c.ch] = c.s]
      [] c.cmd = ":PAGE:CHAN:MODE" -> [m EXCEPT !.amode = c.s]
      [] c.cmd \in {":PAGE:MEAS:CONS:{ch}", ":PAGE:MEAS:SAMP:CONS:{ch}"} ->
            [m EXCEPT !.cons[c.ch] = c.n]
      [] c.cmd \in {":PAGE:MEAS:CONS:{ch}:COMP",
                    ":PAGE:MEAS:SAMP:CONS:{ch}:COMP"} ->
            [m EXCEPT !.compl[c.ch] = c.n]
      [] c.cmd = ":PAGE:CHAN:{ch}:VNAME '%s'" ->
            [m EXCEPT !.names[<<"VNAME", c.ch>>] = c.t]
      [] c.cmd = ":PAGE:CHAN:{ch}:INAME '%s'" ->
            [m EXCEPT !.names[<<"INAME", c.ch>>] = c.t]
      [] c.cmd = ":PAGE:DISP:LIST '%s'" ->
            IF Len(m.dlist) < DisplayLimit /\ c.s \notin SeqRange(m.dlist)
            THEN [m EXCEPT !.dlist = Append(@, c.s)]
            ELSE [m EXCEPT !.errq = Append(@, c.s)]
      [] c.cmd = ":PAGE:DISP:DVAR '%s'" ->
            IF Len(m.dvar) < VariableLimit /\ c.s \notin SeqRange(m.dvar)
            THEN [m EXCEPT !.dvar = Append(@, c.s)]
            ELSE [m EXCEPT !.errq = Append(@, c.s)]
      [] c.cmd = ":PAGE:SCON:MEAS:SING; *OPC?" ->
            [m EXCEPT !.npts = m.acq, !.unread = <<"1">>]
      [] OTHER -> m

write(m, c) == Instr(Send(m, c), c)

\* drains the instrument's error queue; the entries are returned, not raised
check_errors(m) ==
    [Send(m, Query("SYST:ERR?", "")) EXCEPT !.log = @ \o m.errq,
                                           !.errq = <<>>]

strict_range(value, values) ==
    SeqMin(values) <= value /\ value <= SeqMax(values)

strict_discrete_set(value, values) == value \in values

(***************************************************************************)
(* Range validators.  Raised stands for the ValueError of the else branch. *)
(***************************************************************************)
Raised == <<>>

\* variant: the two ranges exchanged
valid_iv_swapped(channel_mode) ==
    IF channel_mode = "V" THEN <<U(-1), U(1)>>
    ELSE IF channel_mode = "I" THEN <<U(-200), U(200)>>
    ELSE Raised

valid_iv(channel_mode) ==
    IF channel_mode = "V" THEN <<U(-200), U(200)>>
    ELSE IF channel_mode = "I" THEN <<U(-1), U(1)>>
    ELSE Raised

\* variant: a copy of valid_iv, the two ranges not exchanged
valid_compliance_same(channel_mode) ==
    IF channel_mode = "V" THEN <<U(-200), U(200)>>
    ELSE IF channel_mode = "I" THEN <<U(-1), U(1)>>
    ELSE Raised

valid_compliance(channel_mode) ==
    IF channel_mode = "I" THEN <<U(-200), U(200)>>
    ELSE IF channel_mode = "V" THEN <<U(-1), U(1)>>
    ELSE Raised

(***************************************************************************)
(* Signal names.  A name is a sequence of characters; Letters are the      *)
(* characters str.isalpha accepts.  A raised call carries no name.         *)
(***************************************************************************)
Letters == {"a", "V", "I"}
isalpha(c) == c \in Letters

NameLimit == 6

\* name[:n]
Slice(name, n) == SubSeq(name, 1, IF Len(name) < n THEN Len(name) ELSE n)

\* variant: the slice keeps six characters
check_current_voltage_name_slice6(m, name) ==
    IF Len(name) > NameLimit
         \/ (Len(name) > 0 /\ ~isalpha(name[1]))
    THEN LET new_name == <<"a">> \o Slice(name, 6)
         IN  [m |-> [m EXCEPT !.info = Append(@, [old |-> name,
                                                  new |-> new_name])],
              v |-> new_name]
    ELSE IF Len(name) = 0 THEN [m |-> Raise(m, "IndexError"), v |-> <<>>]
    ELSE [m |-> m, v |-> name]

\* variant: a name of exactly six characters is rewritten too
check_current_voltage_name_ge(m, name) ==
    IF Len(name) >= NameLimit
         \/ (Len(name) > 0 /\ ~isalpha(name[1]))
    THEN LET new_name == <<"a">> \o Slice(name, 5)
         IN  [m |-> [m EXCEPT !.info = Append(@, [old |-> name,
                                                  new |-> new_name])],
              v |-> new_name]
    ELSE IF Len(name) = 0 THEN [m |-> Raise(m, "IndexError"), v |-> <<>>]
    ELSE [m |-> m, v |-> name]

\* (len(name) > 6) or not name[0].isalpha(): name[0] of the empty name
\* raises IndexError
check_current_voltage_name(m, name) ==
    IF Len(name) > NameLimit
         \/ (Len(name) > 0 /\ ~isalpha(name[1]))
    THEN LET new_name == <<"a">> \o Slice(name, 5)
         IN  [m |-> [m EXCEPT !.info = Append(@, [old |-> name,
                                                  new |-> new_name])],
              v |-> new_name]
    ELSE IF Len(name) = 0 THEN [m |-> Raise(m, "IndexError"), v |-> <<>>]
    ELSE [m |-> m, v |-> name]

(***************************************************************************)
(* AgilentMeasurementChannel                                               *)
(***************************************************************************)
reset_settings(m, ch) ==
    check_errors(write(m, Cmd("w", ":PAGE:CHAN:{ch}:DIS", ch, "", 0)))

get_channel_mode(m, ch) ==
    [check_errors(Send(m, Query(":PAGE:CHAN:{ch}:MODE?", ch)))
        EXCEPT !.ret = m.mode[ch]]

set_channel_mode(m, ch, v) ==
    IF ~strict_discrete_set(v, ModeValues(ch)) THEN Raise(m, "ValueError")
    ELSE check_errors(write(m, WriteS(":PAGE:CHAN:{ch}:MODE", ch, v)))

get_channel_function(m, ch) ==
    [check_errors(Send(m, Query(":PAGE:CHAN:{ch}:FUNC?", ch)))
        EXCEPT !.ret = m.func[ch]]

set_channel_function(m, ch, f) ==
    IF ~strict_discrete_set(f, FunctionValues) THEN Raise(m, "ValueError")
    ELSE check_errors(write(m, WriteS(":PAGE:CHAN:{ch}:FUNC", ch, f)))

\* Channel.control with set_process: the processed name is written
set_voltage_name(m, ch, name) ==
    LET r == check_current_voltage_name(m, name)
    IN  IF r.m.res # "ok" THEN r.m
        ELSE write(r.m, WriteT(":PAGE:CHAN:{ch}:VNAME '%s'", ch, r.v))

get_voltage_name(m, ch) ==
    [Send(m, Query("PAGE:CHAN:{ch}:VNAME?", ch))
        EXCEPT !.out = m.names[<<"VNAME", ch>>]]

set_current_name(m, ch, name) ==
    LET r == check_current_voltage_name(m, name)
    IN  IF r.m.res # "ok" THEN r.m
        ELSE write(r.m, WriteT(":PAGE:CHAN:{ch}:INAME '%s'", ch, r.v))

get_current_name(m, ch) ==
    [Send(m, Query("PAGE:CHAN:{ch}:INAME?", ch))
        EXCEPT !.out = m.names[<<"INAME", ch>>]]

(***************************************************************************)
(* Agilent4156.analyzer_mode                                               *)
(***************************************************************************)
get_analyzer_mode(m) ==
    [check_errors(Send(m, Query(":PAGE:CHAN:MODE?", "")))
        EXCEPT !.ret = AnalyzerModeName(m.amode)]

set_analyzer_mode(m, v) ==
    IF ~strict_discrete_set(v, DOMAIN AnalyzerModeMap)
    THEN Raise(m, "ValueError")
    ELSE check_errors(write(m, WriteS(":PAGE:CHAN:MODE", "",
                                      AnalyzerModeMap[v])))

(***************************************************************************)
(* Agilent4156.stop, measure, save, save_var                               *)
(***************************************************************************)
stop(m) == write(m, WriteS(":PAGE:SCON:STOP", "", ""))

\* a period is the string INF or a number
Period(s, n) == [s |-> s, n |-> n]

\* variant: period and points are written in either mode
measure_always_sampling(m, period, points) ==
    LET m1 == [get_analyzer_mode(m) EXCEPT !.ret = ""]
        m2 == write(m1, Cmd("w", ":PAGE:MEAS:SAMP:PER", "",
                            period.s, period.n))
        m3 == write(m2, WriteN(":PAGE:MEAS:SAMP:POIN", "", points))
    IN  write(m3, WriteS(":PAGE:SCON:MEAS:SING; *OPC?", "", ""))

\* the reply to the trailing *OPC? is not read
measure(m, period, points) ==
    LET m1 == [get_analyzer_mode(m) EXCEPT !.ret = ""]
    IN  IF AnalyzerModeName(m.amode) = "SWEEP"
        THEN write(m1, WriteS(":PAGE:SCON:MEAS:SING; *OPC?", "", ""))
        ELSE LET m2 == write(m1, Cmd("w", ":PAGE:MEAS:SAMP:PER", "",
                                     period.s, period.n))
                 m3 == write(m2, WriteN(":PAGE:MEAS:SAMP:POIN", "", points))
             IN  write(m3, WriteS(":PAGE:SCON:MEAS:SING; *OPC?", "", ""))

\* a trace list is a list of names, a single string, or something else
TraceList(kind, items) == [kind |-> kind, items |-> items]

\* for name in trace_list: self.write(...)
RECURSIVE WriteNames(_, _, _, _)
WriteNames(m, c, trace_list, i) ==
    IF i > Len(trace_list) THEN m
    ELSE WriteNames(write(m, WriteS(c, "", trace_list[i])),
                    c, trace_list, i + 1)

SaveTo(m, c, limit, trace_list) ==
    LET m1 == write(m, WriteS(":PAGE:DISP:MODE LIST", "", ""))
    IN  IF trace_list.kind = "list"
        THEN IF Len(trace_list.items) > limit
             THEN Raise(m1, "RuntimeError")
             ELSE WriteNames(m1, c, trace_list.items, 1)
        ELSE IF trace_list.kind = "str"
        THEN write(m1, WriteS(c, "", trace_list.items[1]))
        ELSE Raise(m1, "TypeError")

\* variant: the limit is tested with >=
save_ge(m, trace_list) ==
    SaveTo(m, ":PAGE:DISP:LIST '%s'", DisplayLimit - 1, trace_list)

save(m, trace_list) ==
    SaveTo(m, ":PAGE:DISP:LIST '%s'", DisplayLimit, trace_list)

save_var(m, trace_list) ==
    SaveTo(m, ":PAGE:DISP:DVAR '%s'", VariableLimit, trace_list)

(***************************************************************************)
(* Agilent4156.data_variables, get_data.  An array is a record: dim 1 with *)
(* a list of numbers, or dim 2 with a list of rows.                        *)
(***************************************************************************)
\* reply.split(','): the reply to an empty list splits into one empty name
split(reply) == IF reply = <<>> THEN <<"">> ELSE reply

\* list(filter(None, varlist))
FilterNone(varlist) == SelectSeq(varlist, LAMBDA x : x # "")

data_variables(m) ==
    LET m1 == Send(m, Query(":PAGE:DISP:LIST?", ""))
        m2 == Send(m1, Query(":PAGE:DISP:DVAR?", ""))
        varlist == split(m.dlist) \o split(m.dvar)
    IN  [m |-> [m2 EXCEPT !.out = FilterNone(varlist)],
         v |-> FilterNone(varlist)]

\* the names the instrument can hold data for, and the value it returns for
\* a name at point r of a measurement of n points
TracePool ==
    <<"IC", "VB", "VC", "IB", "VE", "IE", "V1", "I1", "V2", "I2", "V3", "I3">>
VarPool == <<"VA", "VD", "IA", "ID">>
NamePool == TracePool \o VarPool
NameIndex(name) == CHOOSE i \in DOMAIN NamePool : NamePool[i] = name
Sample(name, r, n) == (NameIndex(name) - 1) * n + r

\* self.values(":DATA? '{listvar}'")
Values(m, listvar) ==
    [dim |-> 1, v |-> [r \in 1..m.npts |-> Sample(listvar, r, m.npts)]]

\* data and lastdata before the loop assigns them
NoData == [dim |-> 0, v |-> <<>>]

Rows(a) == IF a.dim = 1 THEN [r \in 1..Len(a.v) |-> <<a.v[r]>>] ELSE a.v

\* np.column_stack((a, b)), once the two have the same number of rows
column_stack(a, b) ==
    [dim |-> 2, v |-> [r \in 1..Len(a.v) |-> Rows(a)[r] \o Rows(b)[r]]]

\* pd.DataFrame(data=data, columns=header, index=None)
DataFrame(data, header) == [columns |-> header, rows |-> Rows(data)]

\* variant: the new column is put in front
RECURSIVE CollectData_front(_, _, _, _)
CollectData_front(m, header, i, lastdata) ==
    IF i > Len(header) THEN [m |-> m, v |-> lastdata]
    ELSE LET m1 == Send(m, Query(":DATA? '%s'", header[i]))
             data == Values(m, header[i])
         IN  IF i = 1 THEN CollectData_front(m1, header, i + 1, data)
             ELSE IF Len(lastdata.v) # Len(data.v)
             THEN [m |-> Raise(m1, "ValueError"), v |-> lastdata]
             ELSE CollectData_front(m1, header, i + 1,
                                    column_stack(data, lastdata))

\* for i, listvar in enumerate(header): ...
RECURSIVE CollectData(_, _, _, _)
CollectData(m, header, i, lastdata) ==
    IF i > Len(header) THEN [m |-> m, v |-> lastdata]
    ELSE LET m1 == Send(m, Query(":DATA? '%s'", header[i]))
             data == Values(m, header[i])
         IN  IF i = 1 THEN CollectData(m1, header, i + 1, data)
             ELSE IF Len(lastdata.v) # Len(data.v)
             THEN [m |-> Raise(m1, "ValueError"), v |-> lastdata]
             ELSE CollectData(m1, header, i + 1,
                              column_stack(lastdata, data))

\* header is bound only when *OPC? answers 1, data only when the loop ran
get_data(m) ==
    LET m1 == Send(m, Query("*OPC?", ""))
        bound == m.opc = "1"
        h == IF bound THEN data_variables(m1) ELSE [m |-> m1, v |-> <<>>]
        m2 == write([h.m EXCEPT !.out = <<>>],
                    WriteS(":FORM:DATA ASC", "", ""))
    IN  IF ~bound THEN Raise(m2, "UnboundLocalError")
        ELSE LET r == CollectData(m2, h.v, 1, NoData)
             IN  IF r.m.res # "ok" THEN r.m
                 ELSE IF r.v = NoData THEN Raise(r.m, "UnboundLocalError")
                 ELSE [r.m EXCEPT !.out = DataFrame(r.v, h.v)]

(***************************************************************************)
(* SMU and VSU constant source                                             *)
(***************************************************************************)
\* variant: only the mode is tested, not the function
validate_cons_mode_only(m, ch) ==
    LET m1 == get_channel_mode(m, ch)
        m3 == [get_channel_mode(m1, ch) EXCEPT !.ret = ""]
    IN  IF ~(m.mode[ch] # "COMM")
        THEN [m |-> Raise([m1 EXCEPT !.ret = ""], "ValueError"), v |-> Raised]
        ELSE IF valid_iv(m.mode[ch]) = Raised
        THEN [m |-> Raise(m3, "ValueError"), v |-> Raised]
        ELSE [m |-> m3, v |-> valid_iv(m.mode[ch])]

\* SMU.__validate_cons: `and` short-circuits, so FUNC? is asked only when
\* the mode is not COMM; the mode is asked again for valid_iv
validate_cons(m, ch) ==
    LET m1 == get_channel_mode(m, ch)
        m2 == IF m.mode[ch] # "COMM" THEN get_channel_function(m1, ch) ELSE m1
        m3 == [get_channel_mode(m2, ch) EXCEPT !.ret = ""]
    IN  IF ~(m.mode[ch] # "COMM" /\ m.func[ch] = "CONS")
        THEN [m |-> Raise([m2 EXCEPT !.ret = ""], "ValueError"), v |-> Raised]
        ELSE IF valid_iv(m.mode[ch]) = Raised
        THEN [m |-> Raise(m3, "ValueError"), v |-> Raised]
        ELSE [m |-> m3, v |-> valid_iv(m.mode[ch])]

\* SMU.__validate_compl
validate_compl(m, ch) ==
    LET m1 == get_channel_mode(m, ch)
        m2 == IF m.mode[ch] # "COMM" THEN get_channel_function(m1, ch) ELSE m1
        m3 == [get_channel_mode(m2, ch) EXCEPT !.ret = ""]
    IN  IF ~(m.mode[ch] # "COMM" /\ m.func[ch] = "CONS")
        THEN [m |-> Raise([m2 EXCEPT !.ret = ""], "ValueError"), v |-> Raised]
        ELSE IF valid_compliance(m.mode[ch]) = Raised
        THEN [m |-> Raise(m3, "ValueError"), v |-> Raised]
        ELSE [m |-> m3, v |-> valid_compliance(m.mode[ch])]

\* the command is chosen by the analyzer mode, asked after the validation
ConstantWrite(m, sweep_cmd, sampling_cmd, ch, value) ==
    LET m1 == [get_analyzer_mode(m) EXCEPT !.ret = ""]
        c  == IF AnalyzerModeName(m.amode) = "SWEEP" THEN sweep_cmd
              ELSE sampling_cmd
    IN  check_errors(write(m1, WriteN(c, ch, value)))

SMU_set_constant_value(m, ch, const_value) ==
    LET r == validate_cons(m, ch)
    IN  IF r.m.res # "ok" THEN r.m
        ELSE IF ~strict_range(const_value, r.v) THEN Raise(r.m, "ValueError")
        ELSE ConstantWrite(r.m, ":PAGE:MEAS:CONS:{ch}",
                           ":PAGE:MEAS:SAMP:CONS:{ch}", ch, const_value)

SMU_set_compliance(m, ch, comp) ==
    LET r == validate_compl(m, ch)
    IN  IF r.m.res # "ok" THEN r.m
        ELSE IF ~strict_range(comp, r.v) THEN Raise(r.m, "ValueError")
        ELSE ConstantWrite(r.m, ":PAGE:MEAS:CONS:{ch}:COMP",
                           ":PAGE:MEAS:SAMP:CONS:{ch}:COMP", ch, comp)

\* variant: gated by the channel's function as the SMU setter is
VSU_set_constant_value_gated(m, ch, const_value) ==
    LET m1 == get_channel_function(m, ch)
    IN  IF m.func[ch] # "CONS"
        THEN Raise([m1 EXCEPT !.ret = ""], "ValueError")
        ELSE IF ~strict_range(const_value, <<U(-200), U(200)>>)
        THEN Raise(m1, "ValueError")
        ELSE ConstantWrite(m1, ":PAGE:MEAS:CONS:{ch}",
                           ":PAGE:MEAS:SAMP:CONS:{ch}", ch, const_value)

\* VSU.constant_value: a fixed range, no look at the channel's function
VSU_set_constant_value(m, ch, const_value) ==
    IF ~strict_range(const_value, <<U(-200), U(200)>>)
    THEN Raise(m, "ValueError")
    ELSE ConstantWrite(m, ":PAGE:MEAS:CONS:{ch}",
                       ":PAGE:MEAS:SAMP:CONS:{ch}", ch, const_value)

(***************************************************************************)
(* Sweep variables                                                         *)
(***************************************************************************)
Unbound == "<unbound>"

\* variant: the loop breaks at the first match
RECURSIVE ScanChannels_break(_, _, _, _)
ScanChannels_break(m, id, i, ch_mode) ==
    IF i > Len(ScanOrder) THEN [m |-> m, v |-> ch_mode]
    ELSE LET ch == ScanOrder[i]
             m1 == Send(m, Query(":PAGE:CHAN:{ch}:FUNC?", ch))
         IN  IF m.func[ch] = id
             THEN [m |-> Send(m1, Query(":PAGE:CHAN:{ch}:MODE?", ch)),
                   v |-> m.mode[ch]]
             ELSE ScanChannels_break(m1, id, i + 1, ch_mode)

\* the for loop of channel_mode: no break, the last match is kept
RECURSIVE ScanChannels(_, _, _, _)
ScanChannels(m, id, i, ch_mode) ==
    IF i > Len(ScanOrder) THEN [m |-> m, v |-> ch_mode]
    ELSE LET ch == ScanOrder[i]
             m1 == Send(m, Query(":PAGE:CHAN:{ch}:FUNC?", ch))
         IN  IF m.func[ch] = id
             THEN ScanChannels(Send(m1, Query(":PAGE:CHAN:{ch}:MODE?", ch)),
                               id, i + 1, m.mode[ch])
             ELSE ScanChannels(m1, id, i + 1, ch_mode)

\* variant: ch_mode starts as 'V' instead of being unbound
VARX_channel_mode_default(m, id) ==
    LET r == ScanChannels(m, id, 1, "V")
    IN  [m |-> [r.m EXCEPT !.ret = r.v], v |-> r.v]

VARX_channel_mode(m, id) ==
    LET r == ScanChannels(m, id, 1, Unbound)
    IN  IF r.v = Unbound
        THEN [m |-> Raise(r.m, "UnboundLocalError"), v |-> Unbound]
        ELSE [m |-> [r.m EXCEPT !.ret = r.v], v |-> r.v]

VARD_channel_mode(m) ==
    LET r == ScanChannels(m, "VARD", 1, Unbound)
    IN  IF r.v = Unbound
        THEN [m |-> Raise(r.m, "UnboundLocalError"), v |-> Unbound]
        ELSE [m |-> [r.m EXCEPT !.ret = r.v], v |-> r.v]

\* validator(value, values); self.write(...); self.check_errors()
ValidatedWrite(m, values, c, ch, value) ==
    IF values = Raised THEN Raise(m, "ValueError")
    ELSE IF ~strict_range(value, values) THEN Raise(m, "ValueError")
    ELSE check_errors(write([m EXCEPT !.ret = ""], WriteN(c, ch, value)))

\* variant: the range is fixed to the one of mode V, as in VSU.constant_value
VARX_set_start_fixed(m, id, value) ==
    LET r == VARX_channel_mode(m, id)
    IN  IF r.m.res # "ok" THEN r.m
        ELSE ValidatedWrite(r.m, valid_iv("V"),
                            ":PAGE:MEAS:{ch}:STAR", id, value)

VARX_set_start(m, id, value) ==
    LET r == VARX_channel_mode(m, id)
    IN  IF r.m.res # "ok" THEN r.m
        ELSE ValidatedWrite(r.m, valid_iv(r.v),
                            ":PAGE:MEAS:{ch}:STAR", id, value)

VARX_set_stop(m, id, value) ==
    LET r == VARX_channel_mode(m, id)
    IN  IF r.m.res # "ok" THEN r.m
        ELSE ValidatedWrite(r.m, valid_iv(r.v),
                            ":PAGE:MEAS:{ch}:STOP", id, value)

\* values = 2 * valid_iv(...): the list repeated twice
VARX_set_step(m, id, value) ==
    LET r == VARX_channel_mode(m, id)
    IN  IF r.m.res # "ok" THEN r.m
        ELSE ValidatedWrite(r.m, valid_iv(r.v) \o valid_iv(r.v),
                            ":PAGE:MEAS:{ch}:STEP", id, value)

VARX_set_compliance(m, id, value) ==
    LET r == VARX_channel_mode(m, id)
    IN  IF r.m.res # "ok" THEN r.m
        ELSE ValidatedWrite(r.m,
                            valid_compliance(r.v) \o valid_compliance(r.v),
                            ":PAGE:MEAS:{ch}:COMP", id, value)

VARD_set_offset(m, value) ==
    LET r == VARD_channel_mode(m)
    IN  IF r.m.res # "ok" THEN r.m
        ELSE ValidatedWrite(r.m, valid_iv(r.v) \o valid_iv(r.v),
                            ":PAGE:MEAS:VARD:OFFSET", "VARD", value)

VARD_set_compliance(m, value) ==
    LET r == VARD_channel_mode(m)
    IN  IF r.m.res # "ok" THEN r.m
        ELSE ValidatedWrite(r.m,
                            valid_compliance(r.v) \o valid_compliance(r.v),
                            ":PAGE:MEAS:VARD:COMP", "VARD", value)

(***************************************************************************)
(* Agilent4156.disable_all and Agilent4156.configure                       *)
(***************************************************************************)
\* variant: a non-empty error list ends the sequence with an exception
ResetOrAbort(m, ch) ==
    IF m.res # "ok" THEN m
    ELSE LET m1 == reset_settings(m, ch)
         IN  IF m1.log # m.log THEN Raise(m1, "InstrumentError") ELSE m1

disable_all_abort(m) ==
    LET m1 == ResetOrAbort(m, "SMU1")
        m2 == ResetOrAbort(m1, "SMU2")
        m3 == ResetOrAbort(m2, "SMU3")
        m4 == ResetOrAbort(m3, "SMU4")
        m5 == ResetOrAbort(m4, "VMU1")
    IN  ResetOrAbort(m5, "VMU2")

\* six reset_settings calls; the error lists they return are dropped
disable_all(m) ==
    LET m1 == reset_settings(m, "SMU1")
        m2 == reset_settings(m1, "SMU2")
        m3 == reset_settings(m2, "SMU3")
        m4 == reset_settings(m3, "SMU4")
        m5 == reset_settings(m4, "VMU1")
    IN  reset_settings(m5, "VMU2")

\* the keys of obj_dict
Slots == Units \cup SweepVars

\* a configuration document: a sequence of [slot, setup], setup a sequence
\* of settings [attr, s, n] (s a string value, n a numeric one)
Setting(attr, s, n) == [attr |-> attr, s |-> s, n |-> n]
Entry(slot, setup) == [slot |-> slot, setup |-> setup]

\* setattr(obj, setting, value): the property setter of the slot's class
SetAttr(m, slot, st) ==
    CASE st.attr = "channel_function" /\ slot \in Units ->
            set_channel_function(m, slot, st.s)
      [] st.attr = "channel_mode" /\ slot \in Units ->
            set_channel_mode(m, slot, st.s)
      [] st.attr = "constant_value" /\ slot \in SMUs ->
            SMU_set_constant_value(m, slot, st.n)
      [] st.attr = "constant_value" /\ slot \in VSUs ->
            VSU_set_constant_value(m, slot, st.n)
      [] st.attr = "compliance" /\ slot \in SMUs ->
            SMU_set_compliance(m, slot, st.n)
      [] st.attr = "start" /\ slot \in {"VAR1", "VAR2"} ->
            VARX_set_start(m, slot, st.n)
      [] st.attr = "stop" /\ slot \in {"VAR1", "VAR2"} ->
            VARX_set_stop(m, slot, st.n)
      [] st.attr = "step" /\ slot \in {"VAR1", "VAR2"} ->
            VARX_set_step(m, slot, st.n)
      [] st.attr = "compliance" /\ slot \in {"VAR1", "VAR2"} ->
            VARX_set_compliance(m, slot, st.n)
      [] st.attr = "compliance" /\ slot = "VARD" ->
            VARD_set_compliance(m, st.n)
      [] st.attr = "offset" /\ slot = "VARD" ->
            VARD_set_offset(m, st.n)
      [] OTHER -> m

\* for setting, value in setup.items(): an exception ends the loop
RECURSIVE ApplySetup(_, _, _, _)
ApplySetup(m, slot, setup, j) ==
    IF m.res # "ok" \/ j > Len(setup) THEN m
    ELSE ApplySetup(SetAttr(m, slot, setup[j]), slot, setup, j + 1)

\* for obj, setup in new_settings_dict.items()
RECURSIVE ApplyDocument(_, _, _)
ApplyDocument(m, doc, i) ==
    IF m.res # "ok" \/ i > Len(doc) THEN m
    ELSE ApplyDocument(ApplySetup(m, doc[i].slot, doc[i].setup, 1),
                       doc, i + 1)

\* variant: each key is looked up when its settings are applied
RECURSIVE ApplyDocumentLazy(_, _, _)
ApplyDocumentLazy(m, doc, i) ==
    IF m.res # "ok" \/ i > Len(doc) THEN m
    ELSE IF doc[i].slot \notin Slots THEN Raise(m, "KeyError")
    ELSE ApplyDocumentLazy(ApplySetup(m, doc[i].slot, doc[i].setup, 1),
                           doc, i + 1)

configure_lazy(m, doc) ==
    [ApplyDocumentLazy(disable_all(m), doc, 1) EXCEPT !.ret = ""]

\* variant: the channels are disabled after the document is applied
configure_reset_last(m, doc) ==
    IF \E i \in DOMAIN doc : doc[i].slot \notin Slots
    THEN Raise(disable_all(m), "KeyError")
    ELSE LET m1 == ApplyDocument(m, doc, 1)
         IN  IF m1.res # "ok" THEN m1
             ELSE [disable_all(m1) EXCEPT !.ret = ""]

\* variant: the channels are disabled again when a setting fails
configure_undo(m, doc) ==
    LET m1 == disable_all(m)
    IN  IF \E i \in DOMAIN doc : doc[i].slot \notin Slots
        THEN Raise(m1, "KeyError")
        ELSE LET m2 == ApplyDocument(m1, doc, 1)
             IN  IF m2.res # "ok"
                 THEN [disable_all([m2 EXCEPT !.res = "ok"])
                          EXCEPT !.res = m2.res, !.ret = ""]
                 ELSE [m2 EXCEPT !.ret = ""]

\* disable_all; every key is replaced by its channel object (KeyError on an
\* unknown key) before the first setting is applied
configure(m, doc) ==
    LET m1 == disable_all(m)
    IN  IF \E i \in DOMAIN doc : doc[i].slot \notin Slots
        THEN Raise(m1, "KeyError")
        ELSE [ApplyDocument(m1, doc, 1) EXCEPT !.ret = ""]

(***************************************************************************)
(* Calls.  A call is made when the caller is idle and runs to completion;  *)
(* Return hands control back to the caller's script.                       *)
(***************************************************************************)
Call(op, ch, s, n) ==
    [op |-> op, ch |-> ch, s |-> s, n |-> n, f |-> {}, t |-> <<>>, k |-> 0]
NoCall == Call("", "", "", 0)

Do(c, m) ==
    /\ pc = "idle"
    /\ pc' = "done"
    /\ call' = c
    /\ func' = m.func
    /\ mode' = m.mode
    /\ amode' = m.amode
    /\ cons' = m.cons
    /\ compl' = m.compl
    /\ result' = m.res
    /\ sent' = m.sent
    /\ ret' = m.ret
    /\ errlog' = m.log
    /\ names' = m.names
    /\ dlist' = m.dlist
    /\ dvar' = m.dvar
    /\ npts' = m.npts
    /\ unread' = m.unread
    /\ info' = m.info
    /\ out' = m.out

Return ==
    /\ pc = "done"
    /\ pc' = "idle"
    /\ call' = NoCall
    /\ result' = "ok"
    /\ sent' = <<>>
    /\ ret' = ""
    /\ errlog' = <<>>
    /\ info' = <<>>
    /\ out' = <<>>
    /\ UNCHANGED <<func, mode, amode, cons, compl, names, dlist, dvar, npts,
                   unread>>

Init ==
    /\ func = [ch \in Units |-> "DIS"]
    /\ mode = [ch \in Units |-> "DIS"]
    /\ amode = "SWE"
    /\ cons = [ch \in SMUs \cup VSUs |-> 0]
    /\ compl = [ch \in SMUs |-> 0]
    /\ pc = "idle"
    /\ call = NoCall
    /\ result = "ok"
    /\ sent = <<>>
    /\ ret = ""
    /\ errlog = <<>>
    /\ names = [r \in NameRegisters |-> <<>>]
    /\ dlist = <<>>
    /\ dvar = <<>>
    /\ npts = 0
    /\ unread = <<>>
    /\ info = <<>>
    /\ out = <<>>

SetChannelFunction(ch, f) ==
    Do(Call("set_channel_function", ch, f, 0),
       set_channel_function(Machine({}), ch, f))

SetChannelMode(ch, v) ==
    Do(Call("set_channel_mode", ch, v, 0),
       set_channel_mode(Machine({}), ch, v))

ResetSettings(ch) ==
    Do(Call("reset_settings", ch, "", 0), reset_settings(Machine({}), ch))

GetSweepMode(id) ==
    Do(Call("channel_mode", id, "", 0),
       IF id = "VARD" THEN VARD_channel_mode(Machine({})).m
       ELSE VARX_channel_mode(Machine({}), id).m)

SetStart(id, x) ==
    Do(Call("set_start", id, "", x), VARX_set_start(Machine({}), id, x))

SetStop(id, x) ==
    Do(Call("set_stop", id, "", x), VARX_set_stop(Machine({}), id, x))

SetStep(id, x) ==
    Do(Call("set_step", id, "", x), VARX_set_step(Machine({}), id, x))

SetSweepCompliance(id, x) ==
    Do(Call("set_compliance", id, "", x),
       IF id = "VARD" THEN VARD_set_compliance(Machine({}), x)
       ELSE VARX_set_compliance(Machine({}), id, x))

SetOffset(x) ==
    Do(Call("set_offset", "VARD", "", x), VARD_set_offset(Machine({}), x))

SetAnalyzerMode(v) ==
    Do(Call("set_analyzer_mode", "", v, 0),
       set_analyzer_mode(Machine({}), v))

GetChannelMode(ch) ==
    Do(Call("get_channel_mode", ch, "", 0), get_channel_mode(Machine({}), ch))

SMUSetConstantValue(ch, x) ==
    Do(Call("smu_set_constant_value", ch, "", x),
       SMU_set_constant_value(Machine({}), ch, x))

SMUSetCompliance(ch, x) ==
    Do(Call("smu_set_compliance", ch, "", x),
       SMU_set_compliance(Machine({}), ch, x))

VSUSetConstantValue(ch, x) ==
    Do(Call("vsu_set_constant_value", ch, "", x),
       VSU_set_constant_value(Machine({}), ch, x))

\* fault: the units whose disable command the instrument answers with an
\* error
DisableAll(fault) ==
    Do([Call("disable_all", "", "", 0) EXCEPT !.f = fault],
       disable_all(Machine(fault)))

(***************************************************************************)
(* Spec: the sweep-variable subsystem.  The caller programs the units in   *)
(* Programmed and sets the sweep variables' attributes.                    *)
(***************************************************************************)
Programmed == {"SMU1", "SMU3", "VSU2"}
FunctionInputs == FunctionValues \cup {"VAR3"}
ModeInputs == {"V", "I", "COMM", "DVOL"}
SweepInputs ==
    {U(-400) - 1, U(-400), U(-200) - 1, U(-200), U(-2) - 1, U(-2), U(-1) - 1,
     U(-1), 1, U(1), U(1) + 1, U(2), U(2) + 1, U(100), U(200), U(200) + 1,
     U(300), U(400), U(400) + 1}

Next ==
    \/ \E ch \in Programmed, f \in FunctionInputs : SetChannelFunction(ch, f)
    \/ \E ch \in Programmed, v \in ModeInputs : SetChannelMode(ch, v)
    \/ \E ch \in Programmed : ResetSettings(ch)
    \/ \E id \in SweepVars : GetSweepMode(id)
    \/ \E id \in {"VAR1", "VAR2"}, x \in SweepInputs : SetStart(id, x)
    \/ \E id \in {"VAR1", "VAR2"}, x \in SweepInputs : SetStop(id, x)
    \/ \E id \in {"VAR1", "VAR2"}, x \in SweepInputs : SetStep(id, x)
    \/ \E id \in SweepVars, x \in SweepInputs : SetSweepCompliance(id, x)
    \/ \E x \in SweepInputs : SetOffset(x)
    \/ Return

Spec == Init /\ [][Next]_vars

(***************************************************************************)
(* SpecCons: the constant-source setters of the SMUs and VSUs.             *)
(***************************************************************************)
ConsProgrammed == {"SMU2", "VSU1"}
ConsInputs == {U(-200) - 1, U(-200), 5, U(1) + 1, U(200) + 1}

NextCons ==
    \/ \E ch \in ConsProgrammed, f \in FunctionValues :
            SetChannelFunction(ch, f)
    \/ \E ch \in ConsProgrammed \cap SMUs, v \in {"V", "I", "COMM"} :
            SetChannelMode(ch, v)
    \/ \E v \in DOMAIN AnalyzerModeMap : SetAnalyzerMode(v)
    \/ \E ch \in SMUs, x \in ConsInputs : SMUSetConstantValue(ch, x)
    \/ \E ch \in SMUs, x \in ConsInputs : SMUSetCompliance(ch, x)
    \/ \E ch \in ConsProgrammed \cap VSUs, x \in ConsInputs :
            VSUSetConstantValue(ch, x)
    \/ Return

SpecCons == Init /\ [][NextCons]_vars

(***************************************************************************)
(* SpecCfg: bulk reset and bulk configuration.                             *)
(***************************************************************************)
DocExample ==
    <<Entry("SMU1", <<Setting("channel_function", "VAR1", 0),
                      Setting("channel_mode", "V", 0)>>),
      Entry("VAR1", <<Setting("start", "", U(1)),
                      Setting("stop", "", U(2)),
                      Setting("step", "", 1)>>)>>

DocConstant ==
    <<Entry("SMU3", <<Setting("channel_function", "CONS", 0),
                      Setting("channel_mode", "V", 0),
                      Setting("constant_value", "", 0),
                      Setting("compliance", "", 1)>>),
      Entry("VSU1", <<Setting("channel_function", "CONS", 0),
                      Setting("constant_value", "", U(1))>>)>>

DocUnknownFirst ==
    <<Entry("SMU5", <<Setting("channel_function", "CONS", 0)>>),
      Entry("SMU1", <<Setting("channel_function", "VAR1", 0)>>)>>

DocUnknownLast ==
    <<Entry("SMU1", <<Setting("channel_function", "VAR1", 0),
                      Setting("channel_mode", "V", 0)>>),
      Entry("VAR3", <<Setting("start", "", 1)>>)>>

DocSweepFirst ==
    <<Entry("VAR1", <<Setting("start", "", U(1))>>),
      Entry("SMU1", <<Setting("channel_function", "VAR1", 0),
                      Setting("channel_mode", "V", 0)>>)>>

DocStopOutOfRange ==
    <<Entry("SMU2", <<Setting("channel_function", "VAR2", 0),
                      Setting("channel_mode", "I", 0)>>),
      Entry("VAR2", <<Setting("start", "", 1),
                      Setting("stop", "", U(2)),
                      Setting("step", "", 1)>>),
      Entry("SMU4", <<Setting("channel_function", "CONS", 0)>>)>>

DocLinked ==
    <<Entry("VMU1", <<Setting("channel_mode", "DVOL", 0)>>),
      Entry("VSU2", <<Setting("channel_function", "VARD", 0)>>),
      Entry("VARD", <<Setting("offset", "", U(1)),
                      Setting("compliance", "", 1)>>)>>

Documents ==
    <<DocExample, DocConstant, DocUnknownFirst, DocUnknownLast,
      DocSweepFirst, DocStopOutOfRange, DocLinked>>

Configure(d) ==
    Do(Call("configure", "", "", d), configure(Machine({}), Documents[d]))

MaxFaults == 2
FaultSets ==
    {F \in SUBSET SeqRange(ResetOrder) : Cardinality(F) <= MaxFaults}
CfgProgrammed == {"SMU4", "VSU1"}

NextCfg ==
    \/ \E d \in DOMAIN Documents : Configure(d)
    \/ \E F \in FaultSets : DisableAll(F)
    \/ \E ch \in CfgProgrammed, f \in FunctionValues :
            SetChannelFunction(ch, f)
    \/ \E v \in DOMAIN AnalyzerModeMap : SetAnalyzerMode(v)
    \/ Return

SpecCfg == Init /\ [][NextCfg]_vars

(***************************************************************************)
(* SpecMode: the channel mode of every unit.                               *)
(***************************************************************************)
NextMode ==
    \/ \E ch \in Units, v \in ModeInputs \cup {"VPUL"} : SetChannelMode(ch, v)
    \/ \E ch \in Units : GetChannelMode(ch)
    \/ \E ch \in Units : ResetSettings(ch)
    \/ Return

SpecMode == Init /\ [][NextMode]_vars

(***************************************************************************)
(* SpecAcq: saving variables, measuring and reading the data back.         *)
(***************************************************************************)
Stop == Do(Call("stop", "", "", 0), stop(Machine({})))

\* the measurement acquires k points
Measure(period, points, k) ==
    Do([Call("measure", "", period.s, period.n) EXCEPT !.k = points],
       measure([Machine({}) EXCEPT !.acq = k], period, points))

Save(trace_list) ==
    Do([Call("save", "", trace_list.kind, 0) EXCEPT !.t = trace_list.items],
       save(Machine({}), trace_list))

SaveVar(trace_list) ==
    Do([Call("save_var", "", trace_list.kind, 0)
            EXCEPT !.t = trace_list.items],
       save_var(Machine({}), trace_list))

DataVariables ==
    Do(Call("data_variables", "", "", 0), data_variables(Machine({})).m)

\* the instrument answers *OPC? with opc
GetData(opc) ==
    Do(Call("get_data", "", opc, 0),
       get_data([Machine({}) EXCEPT !.opc = opc]))

MaxTraces == 9
MaxVars == 3
MaxPoints == 3
TraceInputs ==
    {TraceList("list", SubSeq(TracePool, 1, k)) : k \in 0..MaxTraces}
        \cup {TraceList("list", <<"VB", "IC">>), TraceList("str", <<"IC">>),
               TraceList("other", <<>>)}
VarInputs ==
    {TraceList("list", SubSeq(VarPool, 1, k)) : k \in 0..MaxVars}
        \cup {TraceList("str", <<"VD">>), TraceList("other", <<>>)}
PeriodInputs == {Period("INF", 0), Period("", U(1)), Period("", 1)}

NextAcq ==
    \/ \E tl \in TraceInputs : Save(tl)
    \/ \E tl \in VarInputs : SaveVar(tl)
    \/ \E v \in DOMAIN AnalyzerModeMap : SetAnalyzerMode(v)
    \/ \E period \in PeriodInputs, points \in {1, MaxPoints},
          k \in 1..MaxPoints : Measure(period, points, k)
    \/ Stop
    \/ DataVariables
    \/ \E opc \in {"0", "1"} : GetData(opc)
    \/ Return

SpecAcq == Init /\ [][NextAcq]_vars

(***************************************************************************)
(* SpecHelpers: the module-level helpers.  check_current_voltage_name runs *)
(* through the name properties of one VMU and one SMU, valid_iv and        *)
(* valid_compliance are applied to every mode string.                      *)
(***************************************************************************)
SetVoltageName(ch, name) ==
    Do([Call("set_voltage_name", ch, "", 0) EXCEPT !.t = name],
       set_voltage_name(Machine({}), ch, name))

GetVoltageName(ch) ==
    Do(Call("get_voltage_name", ch, "", 0), get_voltage_name(Machine({}), ch))

SetCurrentName(ch, name) ==
    Do([Call("set_current_name", ch, "", 0) EXCEPT !.t = name],
       set_current_name(Machine({}), ch, name))

GetCurrentName(ch) ==
    Do(Call("get_current_name", ch, "", 0), get_current_name(Machine({}), ch))

\* the range a validator hands to strict_range, or its ValueError
ApplyRange(m, values) ==
    IF values = Raised THEN Raise(m, "ValueError")
    ELSE [m EXCEPT !.out = values]

ValidIv(channel_mode) ==
    Do(Call("valid_iv", "", channel_mode, 0),
       ApplyRange(Machine({}), valid_iv(channel_mode)))

ValidCompliance(channel_mode) ==
    Do(Call("valid_compliance", "", channel_mode, 0),
       ApplyRange(Machine({}), valid_compliance(channel_mode)))

MaxNameLen == 7
NameChars == {"V", "1"}
NameInputs == UNION {[1..k -> NameChars] : k \in 0..MaxNameLen}
CurrentNameInputs ==
    {<<>>, <<"I">>, <<"1", "I">>, <<"I", "1", "V", "1", "V", "1", "V">>}
RangeModes == ModeInputs \cup {"DIS", "VPUL", Unbound}

NextHelpers ==
    \/ \E name \in NameInputs : SetVoltageName("VMU1", name)
    \/ GetVoltageName("VMU1")
    \/ \E name \in CurrentNameInputs : SetCurrentName("SMU1", name)
    \/ GetCurrentName("SMU1")
    \/ \E md \in RangeModes : ValidIv(md)
    \/ \E md \in RangeModes : ValidCompliance(md)
    \/ Return

SpecHelpers == Init /\ [][NextHelpers]_vars

(***************************************************************************)
(* Properties                                                              *)
(***************************************************************************)
Done(ops) == pc = "done" /\ call.op \in ops

\* positions in the scan order of the channels whose function is the role
Owners(id) == {i \in DOMAIN ScanOrder : func[ScanOrder[i]] = id}
FirstOwner(id) ==
    ScanOrder[CHOOSE i \in Owners(id) : \A j \in Owners(id) : i <= j]
LastOwner(id) ==
    ScanOrder[CHOOSE i \in Owners(id) : \A j \in Owners(id) : j <= i]

IsConstantWrite(c) ==
    /\ c.k = "w"
    /\ c.cmd \in {":PAGE:MEAS:CONS:{ch}", ":PAGE:MEAS:SAMP:CONS:{ch}",
                  ":PAGE:MEAS:CONS:{ch}:COMP",
                  ":PAGE:MEAS:SAMP:CONS:{ch}:COMP"}

\* C1: setting constant_value or compliance of an SMU whose function is not
\* CONS or whose mode is COMM raises an error, sends no constant-value or
\* compliance write, and leaves the instrument's stored values unchanged.
C1_SmuConstantGated ==
    [][(/\ pc = "idle"
        /\ pc' = "done"
        /\ call'.op \in {"smu_set_constant_value", "smu_set_compliance"}
        /\ (func[call'.ch] # "CONS" \/ mode[call'.ch] = "COMM"))
       => (/\ result' = "ValueError"
           /\ \A i \in DOMAIN sent' : ~IsConstantWrite(sent'[i])
           /\ cons' = cons
           /\ compl' = compl)]_vars

C1_Witness ==
    /\ Done({"smu_set_constant_value"})
    /\ func[call.ch] = "CONS"
    /\ mode[call.ch] = "COMM"
    /\ call.n = 5
    /\ result = "ValueError"

ConstantCmd == 
    IF amode = "SWE" THEN ":PAGE:MEAS:CONS:{ch}"
    ELSE ":PAGE:MEAS:SAMP:CONS:{ch}"

C3_FirstOwnerMode ==
    (Done({"channel_mode"}) /\ Owners(call.ch) # {})
    => (result = "ok" /\ ret = mode[FirstOwner(call.ch)])

\* C3 (amended): channel_mode of a sweep variable returns the mode of the
\* last channel in scan order whose function is the variable's role.
C3_LastOwnerMode ==
    (Done({"channel_mode"}) /\ Owners(call.ch) # {})
    => (result = "ok" /\ ret = mode[LastOwner(call.ch)])

C3_Witness ==
    /\ Done({"channel_mode"})
    /\ Cardinality(Owners(call.ch)) >= 2
    /\ mode[FirstOwner(call.ch)] # mode[LastOwner(call.ch)]
    /\ ret = mode[LastOwner(call.ch)]

SweepSetOps ==
    {"set_start", "set_stop", "set_step", "set_compliance", "set_offset"}

\* C4: when no scanned channel has the sweep variable's role, channel_mode
\* raises instead of returning a mode, and every start / stop / step /
\* compliance / offset set on that variable fails without a write.
C4_NoOwnerFails ==
    (Done(SweepSetOps \cup {"channel_mode"}) /\ Owners(call.ch) = {})
    => (/\ result = "UnboundLocalError"
        /\ ret = ""
        /\ SelectWrites(sent) = <<>>)

C4_Witness ==
    /\ Done({"set_start"})
    /\ Owners(call.ch) = {}
    /\ \E ch \in Units : func[ch] \in SweepVars /\ mode[ch] = "V"
    /\ call.n = U(1)
    /\ result = "UnboundLocalError"

SweepCmd(op) ==
    CASE op = "set_start" -> ":PAGE:MEAS:{ch}:STAR"
      [] op = "set_stop" -> ":PAGE:MEAS:{ch}:STOP"
      [] op = "set_step" -> ":PAGE:MEAS:{ch}:STEP"
      [] op = "set_compliance" /\ call.ch # "VARD" -> ":PAGE:MEAS:{ch}:COMP"
      [] op = "set_compliance" /\ call.ch = "VARD" -> ":PAGE:MEAS:VARD:COMP"
      [] op = "set_offset" -> ":PAGE:MEAS:VARD:OFFSET"

\* the set succeeded with exactly one write carrying the value / failed with
\* a validation error and no write
Accepted ==
    /\ result = "ok"
    /\ SelectWrites(sent) = <<WriteN(SweepCmd(call.op), call.ch, call.n)>>
Rejected ==
    /\ result = "ValueError"
    /\ SelectWrites(sent) = <<>>

InValueRange(m, k, x) ==
    IF m = "V" THEN k * U(-200) <= x /\ x <= k * U(200)
    ELSE k * U(-1) <= x /\ x <= k * U(1)
InComplianceRange(m, k, x) ==
    IF m = "I" THEN k * U(-200) <= x /\ x <= k * U(200)
    ELSE k * U(-1) <= x /\ x <= k * U(1)

\* C5: a start or stop set succeeds, with exactly one STAR / STOP write
\* carrying the value, iff the value is in [-200, 200] when the role's
\* channel is in mode V and in [-1, 1] when it is in mode I; otherwise it
\* fails and no write is sent.
C5_StartStopRange ==
    (/\ Done({"set_start", "set_stop"})
     /\ Owners(call.ch) # {}
     /\ mode[LastOwner(call.ch)] \in {"V", "I"})
    => IF InValueRange(mode[LastOwner(call.ch)], 1, call.n)
       THEN Accepted ELSE Rejected

C5_Witness ==
    /\ Done({"set_stop"})
    /\ Owners(call.ch) # {}
    /\ mode[LastOwner(call.ch)] = "I"
    /\ call.n = U(-1)
    /\ Accepted

\* C6 (as claimed): step and the VARD offset are validated against twice
\* the value range of the current mode ([-400, 400] in mode V, [-2, 2] in
\* mode I), the sweep compliance against twice the compliance range.
C6_DoubledRange ==
    (/\ Done({"set_step", "set_offset", "set_compliance"})
     /\ Owners(call.ch) # {}
     /\ mode[LastOwner(call.ch)] \in {"V", "I"})
    => IF call.op = "set_compliance"
       THEN IF InComplianceRange(mode[LastOwner(call.ch)], 2, call.n)
            THEN Accepted ELSE Rejected
       ELSE IF InValueRange(mode[LastOwner(call.ch)], 2, call.n)
            THEN Accepted ELSE Rejected

Disables ==
    [i \in DOMAIN ResetOrder |->
        Cmd("w", ":PAGE:CHAN:{ch}:DIS", ResetOrder[i], "", 0)]

\* the write a (slot, setting) triple stands for
WriteOf(slot, st) ==
    CASE st.attr = "channel_function" ->
            WriteS(":PAGE:CHAN:{ch}:FUNC", slot, st.s)
      [] st.attr = "channel_mode" -> WriteS(":PAGE:CHAN:{ch}:MODE", slot, st.s)
      [] st.attr = "constant_value" -> WriteN(ConstantCmd, slot, st.n)
      [] st.attr = "compliance" /\ slot \in SMUs ->
            WriteN(IF amode = "SWE" THEN ":PAGE:MEAS:CONS:{ch}:COMP"
                   ELSE ":PAGE:MEAS:SAMP:CONS:{ch}:COMP", slot, st.n)
      [] st.attr = "compliance" /\ slot \in {"VAR1", "VAR2"} ->
            WriteN(":PAGE:MEAS:{ch}:COMP", slot, st.n)
      [] st.attr = "compliance" /\ slot = "VARD" ->
            WriteN(":PAGE:MEAS:VARD:COMP", slot, st.n)
      [] st.attr = "start" -> WriteN(":PAGE:MEAS:{ch}:STAR", slot, st.n)
      [] st.attr = "stop" -> WriteN(":PAGE:MEAS:{ch}:STOP", slot, st.n)
      [] st.attr = "step" -> WriteN(":PAGE:MEAS:{ch}:STEP", slot, st.n)
      [] st.attr = "offset" -> WriteN(":PAGE:MEAS:VARD:OFFSET", slot, st.n)

\* the triples of a document, flattened in document order
RECURSIVE Triples(_)
Triples(doc) ==
    IF doc = <<>> THEN <<>>
    ELSE [j \in DOMAIN Head(doc).setup |->
             WriteOf(Head(doc).slot, Head(doc).setup[j])]
         \o Triples(Tail(doc))

IsPrefix(a, b) == Len(a) <= Len(b) /\ a = SubSeq(b, 1, Len(a))
AllKnown(doc) == \A i \in DOMAIN doc : doc[i].slot \in Slots

\* C7: configure sends the disable command of SMU1, SMU2, SMU3, SMU4,
\* VMU1, VMU2 in that order, then the writes of the document's triples in
\* document order; no attribute write precedes the sixth disable.  For the
\* example document the writes are the six disables, SMU1 FUNC VAR1, SMU1
\* MODE V, VAR1 STAR 1, STOP 2, STEP 0.1.
C7_ConfigureOrder ==
    (Done({"configure"}) /\ AllKnown(Documents[call.n]))
    => LET w == SelectWrites(sent)
       IN  /\ Len(w) >= Len(Disables)
           /\ SubSeq(w, 1, Len(Disables)) = Disables
           /\ IsPrefix(SubSeq(w, Len(Disables) + 1, Len(w)),
                       Triples(Documents[call.n]))
           /\ result = "ok" => w = Disables \o Triples(Documents[call.n])
           /\ Documents[call.n] = DocExample =>
                /\ result = "ok"
                /\ w = Disables \o
                       <<WriteS(":PAGE:CHAN:{ch}:FUNC", "SMU1", "VAR1"),
                         WriteS(":PAGE:CHAN:{ch}:MODE", "SMU1", "V"),
                         WriteN(":PAGE:MEAS:{ch}:STAR", "VAR1", U(1)),
                         WriteN(":PAGE:MEAS:{ch}:STOP", "VAR1", U(2)),
                         WriteN(":PAGE:MEAS:{ch}:STEP", "VAR1", 1)>>

C7_Witness ==
    /\ Done({"configure"})
    /\ Documents[call.n] = DocExample
    /\ result = "ok"
    /\ func["SMU1"] = "VAR1"
    /\ mode["SMU1"] = "V"
    /\ func["VSU1"] = "VAR1"

\* C8: configure on a document that names an unknown slot, wherever the
\* name occurs, fails with a KeyError after the six disables and before
\* any attribute of the document is applied.
C8_UnknownSlot ==
    (Done({"configure"}) /\ ~AllKnown(Documents[call.n]))
    => (/\ result = "KeyError"
        /\ SelectWrites(sent) = Disables)

C8_Witness ==
    /\ Done({"configure"})
    /\ Documents[call.n] = DocUnknownLast
    /\ result = "KeyError"
    /\ func["SMU1"] = "DIS"

FirstFault(F) ==
    CHOOSE i \in DOMAIN ResetOrder :
        /\ ResetOrder[i] \in F
        /\ \A j \in DOMAIN ResetOrder : ResetOrder[j] \in F => i <= j
InFault(ch) == ch \in call.f

LegalAsClaimed(ch, v) ==
    IF ch \in SMUs THEN v \in {"V", "I", "COMM"}
    ELSE IF ch \in VMUs THEN v \in {"V", "DVOL"}
    ELSE TRUE
LegalAmended(ch, v) ==
    IF ch \in SMUs THEN v \in {"V", "I", "COMM"}
    ELSE IF ch \in VMUs THEN v \in {"V", "DVOL"}
    ELSE FALSE
ModeSetOutcome(legal) ==
    IF legal
    THEN /\ result = "ok"
         /\ SelectWrites(sent) =
                <<WriteS(":PAGE:CHAN:{ch}:MODE", call.ch, call.s)>>
         /\ mode[call.ch] = call.s
    ELSE /\ result = "ValueError"
         /\ sent = <<>>

\* C10 (as claimed): set_mode is rejected, without a MODE write, exactly
\* when the value is not in the legal set of the channel kind: {V, I, COMM}
\* for an SMU, {V, DVOL} for a VMU, and every value is legal for a VSU.
C10_VsuUnrestricted ==
    Done({"set_channel_mode"})
    => ModeSetOutcome(LegalAsClaimed(call.ch, call.s))

\* C10 (amended): the legal set is {V, I, COMM} for an SMU and {V, DVOL}
\* for a VMU; a VSU has the empty legal set, so every set_mode on VSU1 or
\* VSU2 is rejected with a validation error and no MODE write.
C10_ModeLegalSets ==
    Done({"set_channel_mode"})
    => ModeSetOutcome(LegalAmended(call.ch, call.s))

C10_Witness ==
    /\ Done({"set_channel_mode"})
    /\ call.ch \in VSUs
    /\ call.s = "V"
    /\ result = "ValueError"
    /\ sent = <<>>

(***************************************************************************)
(* Signal names                                                            *)
(***************************************************************************)
NameSetOps == {"set_voltage_name", "set_current_name"}
NameCmd(op) ==
    IF op = "set_voltage_name" THEN ":PAGE:CHAN:{ch}:VNAME '%s'"
    ELSE ":PAGE:CHAN:{ch}:INAME '%s'"
Register(op, ch) ==
    IF op \in {"set_voltage_name", "get_voltage_name"}
    THEN <<"VNAME", ch>> ELSE <<"INAME", ch>>

\* the names the rewrite applies to: too long, or a first character that is
\* not a letter
NeedsRewrite(name) ==
    Len(name) > 6 \/ (Len(name) >= 1 /\ name[1] \notin Letters)
LegalName(name) ==
    Len(name) >= 1 /\ Len(name) <= 6 /\ name[1] \in Letters
FirstFive(name) ==
    [i \in 1..(IF Len(name) < 5 THEN Len(name) ELSE 5) |-> name[i]]

\* C11: for a name longer than six characters or not starting with a
\* letter, the one command written carries 'a' followed by the first five
\* characters of the given name, at most six characters starting with 'a',
\* and one log entry records the substitution.
C11_RewrittenName ==
    (Done(NameSetOps) /\ NeedsRewrite(call.t)) =>
        /\ result = "ok"
        /\ Len(sent) = 1
        /\ sent[1] = WriteT(NameCmd(call.op), call.ch,
                            <<"a">> \o FirstFive(call.t))
        /\ Len(sent[1].t) <= 6
        /\ sent[1].t[1] = "a"
        /\ info = <<[old |-> call.t, new |-> sent[1].t]>>

C11_Witness ==
    /\ Done({"set_voltage_name"})
    /\ Len(call.t) > 6
    /\ call.t[1] \in Letters
    /\ Len(info) = 1
    /\ Len(sent) = 1

\* C12: a name of at most six characters that starts with a letter is
\* written as given, without a log entry, and the instrument keeps it; a
\* get returns the name the register holds; every name a set wrote is legal
\* and is left as it is by a second rewrite.
C12_LegalNameKept ==
    /\ (Done(NameSetOps) /\ LegalName(call.t)) =>
            /\ result = "ok"
            /\ sent = <<WriteT(NameCmd(call.op), call.ch, call.t)>>
            /\ info = <<>>
            /\ names[Register(call.op, call.ch)] = call.t
    /\ Done({"get_voltage_name", "get_current_name"}) =>
            /\ result = "ok"
            /\ out = names[Register(call.op, call.ch)]
    /\ (Done(NameSetOps) /\ result = "ok") =>
            /\ LegalName(sent[1].t)
            /\ check_current_voltage_name(Machine({}), sent[1].t).v
                   = sent[1].t

C12_Witness ==
    /\ Done({"get_voltage_name"})
    /\ Len(out) = 6
    /\ out[1] = "V"

\* C13: setting a signal name returns normally for every string, the empty
\* one included, and writes a legal name.
C13_NeverFails ==
    Done(NameSetOps) =>
        /\ result = "ok"
        /\ Len(sent) = 1
        /\ LegalName(sent[1].t)

(***************************************************************************)
(* Range validators                                                        *)
(***************************************************************************)
OtherMode(md) == IF md = "V" THEN "I" ELSE "V"

\* C14: valid_iv gives [-200, 200] for V and [-1, 1] for I, valid_compliance
\* gives [-200, 200] for I and [-1, 1] for V, so each is the other with the
\* two modes exchanged; for every other mode string both raise the same
\* ValueError and return no range.
C14_MutuallyInverse ==
    /\ Done({"valid_iv"}) =>
            CASE call.s = "V" -> result = "ok" /\ out = <<U(-200), U(200)>>
              [] call.s = "I" -> result = "ok" /\ out = <<U(-1), U(1)>>
              [] OTHER -> result = "ValueError" /\ out = <<>>
    /\ Done({"valid_compliance"}) =>
            CASE call.s = "I" -> result = "ok" /\ out = <<U(-200), U(200)>>
              [] call.s = "V" -> result = "ok" /\ out = <<U(-1), U(1)>>
              [] OTHER -> result = "ValueError" /\ out = <<>>
    /\ (Done({"valid_iv"}) /\ call.s \in {"V", "I"}) =>
            out = valid_compliance(OtherMode(call.s))
    /\ (Done({"valid_compliance"}) /\ call.s \in {"V", "I"}) =>
            out = valid_iv(OtherMode(call.s))

C14_Witness ==
    /\ Done({"valid_compliance"})
    /\ call.s = "I"
    /\ out = <<U(-200), U(200)>>

(***************************************************************************)
(* Saving, measuring, reading data                                         *)
(***************************************************************************)
DisplayModeWrite == WriteS(":PAGE:DISP:MODE LIST", "", "")
ListWrites(list) ==
    [i \in 1..Len(list) |-> WriteS(":PAGE:DISP:LIST '%s'", "", list[i])]

\* C15: save with a list of more than 8 names raises RuntimeError after the
\* display-mode write and sends nothing else; with n <= 8 names it sends
\* the display-mode write followed by exactly n list writes, one per name,
\* in the order of the list.
C15_SaveCapacity ==
    (Done({"save"}) /\ call.s = "list") =>
        IF Len(call.t) > 8
        THEN result = "RuntimeError" /\ sent = <<DisplayModeWrite>>
        ELSE /\ result = "ok"
             /\ Len(sent) = Len(call.t) + 1
             /\ sent = <<DisplayModeWrite>> \o ListWrites(call.t)

C15_Witness ==
    /\ Done({"save"})
    /\ call.s = "list"
    /\ Len(call.t) > 8
    /\ result = "RuntimeError"
    /\ Len(sent) = 1

MeasureWrite == WriteS(":PAGE:SCON:MEAS:SING; *OPC?", "", "")

\* C16: in SWEEP mode measure writes only the single measurement command;
\* in SAMPLING mode it writes the period, the points and then the same
\* measurement command, in this order and with no other write between them.
C16_MeasureWrites ==
    Done({"measure"}) =>
        /\ result = "ok"
        /\ amode = "SWE" => SelectWrites(sent) = <<MeasureWrite>>
        /\ amode = "SAMP" =>
                SelectWrites(sent) =
                    <<Cmd("w", ":PAGE:MEAS:SAMP:PER", "", call.s, call.n),
                      WriteN(":PAGE:MEAS:SAMP:POIN", "", call.k),
                      MeasureWrite>>
        /\ amode \in {"SWE", "SAMP"}

C16_Witness ==
    /\ Done({"measure"})
    /\ amode = "SAMP"
    /\ call.s = "INF"
    /\ Len(SelectWrites(sent)) = 3

\* C17: measure does not return before the reply to *OPC? has been read:
\* no reply is left unread on the transport when it returns.
C17_MeasureBlocks == Done({"measure"}) => unread = <<>>

\* the variables saved in the instrument: display list, then extra list
SavedVariables == dlist \o dvar

\* C18: when *OPC? reports completion and at least one variable is saved,
\* get_data returns a table whose columns are the saved variables in order
\* and whose column i holds the values the instrument returned for variable
\* i, row by row; [IC, VB] with values 1,2,3 and 4,5,6 gives the rows
\* (1,4), (2,5), (3,6).  When completion is not reported or no variable is
\* saved, the call raises and no table is produced.
C18_DataTable ==
    Done({"get_data"}) =>
        IF call.s = "1" /\ SavedVariables # <<>>
        THEN /\ result = "ok"
             /\ out.columns = SavedVariables
             /\ Len(out.rows) = npts
             /\ \A r \in 1..npts :
                    /\ Len(out.rows[r]) = Len(SavedVariables)
                    /\ \A i \in 1..Len(SavedVariables) :
                           out.rows[r][i] = Sample(SavedVariables[i], r, npts)
             /\ (SavedVariables = <<"IC", "VB">> /\ npts = 3) =>
                    out.rows = <<<<1, 4>>, <<2, 5>>, <<3, 6>>>>
        ELSE /\ result = "UnboundLocalError"
             /\ out = <<>>

C18_Witness ==
    /\ Done({"get_data"})
    /\ result = "ok"
    /\ Len(dlist) = 8
    /\ Len(dvar) = 2
    /\ npts = 3
    /\ Len(out.columns) = 10
    /\ Len(out.rows) = 3

(***************************************************************************)
(* Ranges at access time                                                   *)
(***************************************************************************)
\* a step that runs a start / stop / step / compliance / offset set
SweepSetStep == pc = "idle" /\ pc' = "done" /\ call'.op \in SweepSetOps

\* C19: whatever set_function / set_mode / reset calls came before, a sweep
\* set is validated against the range of the mode that the channel holding
\* the role has at the moment of the call: start and stop are accepted iff
\* the value is in that mode's value range (start = 100 is accepted in mode
\* V and rejected in mode I), step, offset and compliance are accepted
\* inside that mode's range and rejected outside twice that range, and every
\* set fails without a write when no channel holds the role.
C19_RangeAtAccess ==
    [][SweepSetStep =>
        IF Owners(call'.ch) = {}
        THEN result' = "UnboundLocalError" /\ SelectWrites(sent') = <<>>
        ELSE LET md == mode[LastOwner(call'.ch)]
             IN  IF md \notin {"V", "I"} THEN Rejected'
                 ELSE IF call'.op \in {"set_start", "set_stop"}
                 THEN IF InValueRange(md, 1, call'.n)
                      THEN Accepted' ELSE Rejected'
                 ELSE IF call'.op = "set_compliance"
                 THEN /\ InComplianceRange(md, 1, call'.n) => Accepted'
                      /\ ~InComplianceRange(md, 2, call'.n) => Rejected'
                 ELSE /\ InValueRange(md, 1, call'.n) => Accepted'
                      /\ ~InValueRange(md, 2, call'.n) => Rejected'
      ]_vars

C19_Witness ==
    /\ Done({"set_start"})
    /\ call.n = U(100)
    /\ Owners(call.ch) # {}
    /\ mode[LastOwner(call.ch)] = "I"
    /\ Rejected

(***************************************************************************)
(* configure after a failure                                               *)
(***************************************************************************)
\* the register a write of the applied prefix set still holds its value,
\* unless a later write of the prefix set the same register
Remains(applied, i) ==
    LET c == applied[i]
        last == \A j \in DOMAIN applied :
                    (j > i /\ applied[j].cmd = c.cmd /\ applied[j].ch = c.ch)
                        => FALSE
    IN  last =>
            CASE c.cmd = ":PAGE:CHAN:{ch}:FUNC" -> func[c.ch] = c.s
              [] c.cmd = ":PAGE:CHAN:{ch}:MODE" -> mode[c.ch] = c.s
              [] c.cmd \in {":PAGE:MEAS:CONS:{ch}",
                            ":PAGE:MEAS:SAMP:CONS:{ch}"} -> cons[c.ch] = c.n
              [] c.cmd \in {":PAGE:MEAS:CONS:{ch}:COMP",
                            ":PAGE:MEAS:SAMP:CONS:{ch}:COMP"} ->
                    compl[c.ch] = c.n
              [] OTHER -> TRUE

====
